---- MODULE Spec2Model ----
(***************************************************************************)
(* Model of PostProcessing (src/graphics/post_processing.cpp): the motion  *)
(* blur pass of the renderer.                                              *)
(*                                                                         *)
(* Units.  m_boost_amount is a float; it is kept here in fixed point, in   *)
(* units of 0.1, and dt in ticks of 0.2 s.  giveBoost's 2.5f is then 25    *)
(* and update's dt*3.5f is 7 units per tick, both exact.                   *)
(*                                                                         *)
(* The object's callers (the frame loop, the options screen, the race      *)
(* manager) are outside this file: the public methods, init included, may  *)
(* be called in any order and any number of times, and the configuration   *)
(* flag and the player count may change between any two calls.  dt is an   *)
(* elapsed time, never negative.                                           *)
(***************************************************************************)
EXTENDS Integers, Sequences, FiniteSets

VARIABLES
    inited,                 \* init() has run at least once
    initInFrame,            \* init() has run since the last beginCapture
    m_supported,
    m_render_target,        \* "uninit" | "null" | "postprocess"
    m_material,             \* [MaterialType, Texture]
    m_boost_amount,
    m_used_pp_this_frame,   \* what 'if (m_used_pp_this_frame)' reads
    used_negated,           \* what 'if (!m_used_pp_this_frame)' reads
    m_postprocess_enabled,  \* UserConfigParams::m_postprocess_enabled
    num_players,            \* race_manager->getNumPlayers()
    render_target,          \* the engine's current render target
    boost_uniform,          \* "boost_amount" handed to the shader by the last call, -1: none
    \* history of the calls, for stating the properties
    lastOp,                 \* the method that ran last
    lastDt,                 \* its dt, when it was update
    queried,                \* the driver's queryFeature() answers, when it was init
    calls,                  \* the engine calls it made
    log,                    \* the warnings it wrote with Log::warn
    used_assigned,          \* m_used_pp_this_frame has been assigned
    sinceBoost,             \* ticks of update since the last giveBoost, capped
    phase,                  \* position in the frame begun by the last beginCapture
    frameRedirected,        \* that beginCapture redirected rendering
    envStable               \* flags and player count unchanged since it

vars == <<queried, inited, initInFrame, m_supported, m_render_target, m_material,
          m_boost_amount, m_used_pp_this_frame, used_negated,
          m_postprocess_enabled, num_players, render_target, boost_uniform, log, lastOp, lastDt,
          calls, used_assigned, sinceBoost, phase, frameRedirected,
          envStable>>

model == <<m_supported, m_render_target, m_material, m_boost_amount,
           m_used_pp_this_frame, used_negated, m_postprocess_enabled,
           render_target, inited, initInFrame>>

----------------------------------------------------------------------------
(* Bounds *)

MaxDt == 2
MaxPlayers == 2

(* Program constants, in the units above *)

BOOST_FULL == 25
DECAY_PER_TICK == 7

SinceCap == (BOOST_FULL + DECAY_PER_TICK - 1) \div DECAY_PER_TICK

Drivers == [glsl : BOOLEAN, ps20 : BOOLEAN, rtt : BOOLEAN,
            nsquare : BOOLEAN, npot : BOOLEAN]

Unqueried == [glsl |-> FALSE, ps20 |-> FALSE, rtt |-> FALSE,
              nsquare |-> FALSE, npot |-> FALSE]

----------------------------------------------------------------------------
(* Engine calls *)

SetRenderTarget(t) == [fn |-> "setRenderTarget", arg |-> t]
SetMaterial == [fn |-> "setMaterial", arg |-> "m_material"]
DrawIndexedTriangleList == [fn |-> "drawIndexedTriangleList", arg |-> "quad"]
AddRenderTargetTexture == [fn |-> "addRenderTargetTexture", arg |-> "postprocess"]
AddShaderMaterial == [fn |-> "addHighLevelShaderMaterialFromFiles", arg |-> "motion_blur"]

DefaultMaterial == [MaterialType |-> "EMT_SOLID", Texture |-> "null"]

----------------------------------------------------------------------------
(* init *)

QuerySupported_NoShaderCheck(d) == d.rtt

QuerySupported(d) == d.glsl /\ d.ps20 /\ d.rtt

DimensionWarnings(d) ==
    (IF ~d.npot THEN <<"Only power of two textures are supported.">> ELSE <<>>)
    \o (IF ~d.nsquare THEN <<"Only square textures are supported.">> ELSE <<>>)

EnabledAfterAlloc(target, enabled) ==
    IF target = "null" THEN FALSE ELSE enabled

init(video_driver, alloc_ok) ==
    /\ inited' = TRUE
    /\ initInFrame' = TRUE
    /\ m_supported' = QuerySupported(video_driver)
    /\ IF QuerySupported(video_driver)
       THEN LET target == IF alloc_ok THEN "postprocess" ELSE "null" IN
            /\ m_render_target' = target
            /\ log' = DimensionWarnings(video_driver)
                   \o (IF target = "null"
                       THEN <<"Couldn't create the render target for post-processing, disabling it.">>
                       ELSE <<>>)
            /\ m_postprocess_enabled' = EnabledAfterAlloc(target, m_postprocess_enabled)
            /\ m_material' = [MaterialType |-> "motion_blur", Texture |-> target]
            /\ calls' = <<AddRenderTargetTexture, AddShaderMaterial>>
       ELSE /\ log' = DimensionWarnings(video_driver)
            /\ calls' = <<>>
            /\ UNCHANGED <<m_render_target, m_postprocess_enabled, m_material>>
    /\ lastOp' = "init"
    /\ lastDt' = 0
    /\ queried' = video_driver
    /\ boost_uniform' = -1
    /\ envStable' = (/\ envStable
                     /\ m_supported' = m_supported
                     /\ m_postprocess_enabled' = m_postprocess_enabled)
    /\ UNCHANGED <<m_boost_amount, m_used_pp_this_frame, used_negated, num_players,
                   render_target, used_assigned, sinceBoost,
                   phase, frameRedirected>>

shut ==
    /\ lastOp' = "shut"
    /\ lastDt' = 0
    /\ queried' = Unqueried
    /\ log' = <<>>
    /\ boost_uniform' = -1
    /\ calls' = <<>>
    /\ UNCHANGED <<model, num_players, used_assigned, sinceBoost,
                   phase, frameRedirected, envStable>>

----------------------------------------------------------------------------
(* The guard shared by the three per-frame hooks: TRUE when the hook returns
   at once. *)

beginCaptureSkips(sup, en, np) == ~sup \/ ~en \/ np > 1

endCaptureSkips_Never(sup, en, np) == FALSE

endCaptureSkips(sup, en, np) == ~sup \/ ~en \/ np > 1

renderSkips_IgnoresConfig(sup, en, np) == ~sup \/ np > 1

renderSkips(sup, en, np) == ~sup \/ ~en \/ np > 1

(* beginCapture captures only with a boost pending. *)

BoostPending_Always(b) == b >= 0

BoostPending(b) == ~(b <= 0)

beginCapture ==
    /\ IF beginCaptureSkips(m_supported, m_postprocess_enabled, num_players)
       THEN /\ calls' = <<>>
            /\ UNCHANGED <<m_used_pp_this_frame, used_negated, used_assigned, render_target>>
       ELSE IF ~BoostPending(m_boost_amount)
       THEN /\ m_used_pp_this_frame' = FALSE
            /\ used_negated' = TRUE
            /\ used_assigned' = TRUE
            /\ calls' = <<>>
            /\ UNCHANGED render_target
       ELSE /\ m_used_pp_this_frame' = TRUE
            /\ used_negated' = FALSE
            /\ used_assigned' = TRUE
            /\ calls' = <<SetRenderTarget(m_render_target)>>
            /\ render_target' = m_render_target
    /\ lastOp' = "beginCapture"
    /\ lastDt' = 0
    /\ queried' = Unqueried
    /\ log' = <<>>
    /\ boost_uniform' = -1
    /\ phase' = "begun"
    /\ frameRedirected' = (calls' # <<>>)
    /\ envStable' = TRUE
    /\ initInFrame' = FALSE
    /\ UNCHANGED <<inited, m_supported, m_render_target, m_material,
                   m_boost_amount, m_postprocess_enabled, num_players,
                   sinceBoost>>

endCapture ==
    /\ IF endCaptureSkips(m_supported, m_postprocess_enabled, num_players)
       THEN /\ calls' = <<>>
            /\ UNCHANGED render_target
       ELSE IF m_used_pp_this_frame
       THEN /\ calls' = <<SetRenderTarget("framebuffer")>>
            /\ render_target' = "framebuffer"
       ELSE /\ calls' = <<>>
            /\ UNCHANGED render_target
    /\ lastOp' = "endCapture"
    /\ lastDt' = 0
    /\ queried' = Unqueried
    /\ log' = <<>>
    /\ boost_uniform' = -1
    /\ IF phase = "begun"
       THEN phase' = "ended"
       ELSE phase' = "none"
    /\ UNCHANGED <<inited, initInFrame, m_supported, m_render_target, m_material,
                   m_boost_amount, m_used_pp_this_frame, used_negated, m_postprocess_enabled,
                   num_players, used_assigned, sinceBoost,
                   frameRedirected, envStable>>

(* update *)

Decay_NoClamp(b, dt) == IF b > 0 THEN b - dt * DECAY_PER_TICK ELSE b

Decay_Stalls(b, dt) ==
    IF b > 0
    THEN LET d == b - dt * DECAY_PER_TICK IN IF d < 0 THEN b ELSE d
    ELSE b

Decay_HalfRate(b, dt) ==
    IF b > 0
    THEN LET d == b - dt * (DECAY_PER_TICK \div 2) IN IF d < 0 THEN 0 ELSE d
    ELSE b

Decay(b, dt) ==
    IF b > 0
    THEN LET d == b - dt * DECAY_PER_TICK IN IF d < 0 THEN 0 ELSE d
    ELSE b

update(dt) ==
    /\ m_boost_amount' = Decay(m_boost_amount, dt)
    /\ lastOp' = "update"
    /\ lastDt' = dt
    /\ queried' = Unqueried
    /\ log' = <<>>
    /\ boost_uniform' = -1
    /\ calls' = <<>>
    /\ sinceBoost' = IF sinceBoost + dt > SinceCap THEN SinceCap ELSE sinceBoost + dt
    /\ UNCHANGED <<inited, initInFrame, m_supported, m_render_target, m_material,
                   m_used_pp_this_frame, used_negated, m_postprocess_enabled, num_players,
                   render_target, used_assigned, phase,
                   frameRedirected, envStable>>

(* The shader constant callback, run by the engine while the quad is drawn
   with the shader material that init registered this object with *)

OnSetConstants == m_boost_amount

render ==
    /\ IF renderSkips(m_supported, m_postprocess_enabled, num_players)
       THEN /\ calls' = <<>>
            /\ boost_uniform' = -1
       ELSE IF used_negated
       THEN /\ calls' = <<>>
            /\ boost_uniform' = -1
       ELSE /\ calls' = <<SetMaterial, DrawIndexedTriangleList>>
            /\ boost_uniform' = IF m_material.MaterialType = "motion_blur"
                               THEN OnSetConstants ELSE -1
    /\ lastOp' = "render"
    /\ lastDt' = 0
    /\ queried' = Unqueried
    /\ log' = <<>>
    /\ IF phase = "ended"
       THEN phase' = "rendered"
       ELSE phase' = "none"
    /\ UNCHANGED <<inited, initInFrame, m_supported, m_render_target, m_material,
                   m_boost_amount, m_used_pp_this_frame, used_negated, m_postprocess_enabled,
                   num_players, render_target, used_assigned, sinceBoost,
                   frameRedirected, envStable>>

giveBoost ==
    /\ m_boost_amount' = BOOST_FULL
    /\ lastOp' = "giveBoost"
    /\ lastDt' = 0
    /\ queried' = Unqueried
    /\ log' = <<>>
    /\ boost_uniform' = -1
    /\ calls' = <<>>
    /\ sinceBoost' = 0
    /\ UNCHANGED <<inited, initInFrame, m_supported, m_render_target, m_material,
                   m_used_pp_this_frame, used_negated, m_postprocess_enabled, num_players,
                   render_target, used_assigned, phase,
                   frameRedirected, envStable>>

----------------------------------------------------------------------------
(* The object's surroundings: the options screen writes the configuration
   flag, the race manager the number of players. *)

SetPostprocessEnabled(b) ==
    /\ m_postprocess_enabled' = b
    /\ envStable' = (envStable /\ b = m_postprocess_enabled)
    /\ lastOp' = "config"
    /\ lastDt' = 0
    /\ queried' = Unqueried
    /\ log' = <<>>
    /\ boost_uniform' = -1
    /\ calls' = <<>>
    /\ UNCHANGED <<inited, initInFrame, m_supported, m_render_target, m_material,
                   m_boost_amount, m_used_pp_this_frame, used_negated, num_players,
                   render_target, used_assigned,
                   sinceBoost, phase, frameRedirected>>

SetNumPlayers(n) ==
    /\ num_players' = n
    /\ envStable' = (envStable /\ n = num_players)
    /\ lastOp' = "players"
    /\ lastDt' = 0
    /\ queried' = Unqueried
    /\ log' = <<>>
    /\ boost_uniform' = -1
    /\ calls' = <<>>
    /\ UNCHANGED <<model, used_assigned, sinceBoost, phase,
                   frameRedirected>>

----------------------------------------------------------------------------
(* After construction: only m_boost_amount is set; m_supported,
   m_used_pp_this_frame and m_render_target hold whatever the memory held.
   A byte that is neither 0 nor 1 reads as true in 'if (x)' and, depending
   on the build, as true or false in 'if (!x)': until beginCapture assigns
   the flag the two tests of m_used_pp_this_frame need not be opposite. *)

Init ==
    /\ queried = Unqueried
    /\ inited = FALSE
    /\ initInFrame = FALSE
    /\ m_supported \in BOOLEAN
    /\ m_render_target = "uninit"
    /\ m_material = DefaultMaterial
    /\ m_boost_amount = 0
    /\ m_used_pp_this_frame \in BOOLEAN
    /\ used_negated \in BOOLEAN
    /\ m_used_pp_this_frame \/ used_negated
    /\ m_postprocess_enabled \in BOOLEAN
    /\ num_players \in 0..MaxPlayers
    /\ render_target = "framebuffer"
    /\ boost_uniform = -1
    /\ log = <<>>
    /\ lastOp = "PostProcessing"
    /\ lastDt = 0
    /\ calls = <<>>
    /\ used_assigned = FALSE
    /\ sinceBoost = SinceCap
    /\ phase = "none"
    /\ frameRedirected = FALSE
    /\ envStable = TRUE

Next ==
    \/ \E video_driver \in Drivers :
          \* addRenderTargetTexture is called only on a supporting driver
          \E alloc_ok \in (IF QuerySupported(video_driver) THEN BOOLEAN ELSE {TRUE}) :
             init(video_driver, alloc_ok)
    \/ shut
    \/ beginCapture
    \/ endCapture
    \/ \E dt \in 0..MaxDt : update(dt)
    \/ render
    \/ giveBoost
    \/ \E b \in BOOLEAN : SetPostprocessEnabled(b)
    \/ \E n \in 0..MaxPlayers : SetNumPlayers(n)

Spec == Init /\ [][Next]_vars

----------------------------------------------------------------------------
(* Properties *)

Max0(x) == IF x < 0 THEN 0 ELSE x

FrameHooks == {"beginCapture", "endCapture", "render"}

FeatureOff == ~m_supported \/ ~m_postprocess_enabled \/ num_players > 1

(* C1: when the feature is unsupported, disabled in the configuration, or
   more than one player is active, a call of beginCapture, endCapture or
   render makes no engine call, leaves the engine's render target alone and
   leaves m_used_pp_this_frame and m_boost_amount unchanged. *)
C1_SkippedWhenOff ==
    [][(lastOp' \in FrameHooks /\ FeatureOff) =>
          /\ calls' = <<>>
          /\ render_target' = render_target
          /\ m_used_pp_this_frame' = m_used_pp_this_frame
          /\ used_negated' = used_negated
          /\ m_boost_amount' = m_boost_amount]_vars

(* render has just returned on the disabled configuration flag, although the
   frame flag is set and a boost is pending. *)
C1_Witness ==
    /\ lastOp = "render"
    /\ m_supported /\ ~m_postprocess_enabled /\ num_players <= 1
    /\ m_render_target = "postprocess"
    /\ m_used_pp_this_frame /\ m_boost_amount > 0
    /\ calls = <<>>

(* C2: update(dt) never raises m_boost_amount; it sets it to
   max(0, old - 3.5*dt) when old > 0 and leaves it at 0 otherwise; and no
   operation but giveBoost ever raises it. *)
C2_MonotoneDecay ==
    [][/\ lastOp' = "update" =>
            /\ m_boost_amount' <= m_boost_amount
            /\ m_boost_amount' =
                 IF m_boost_amount > 0
                 THEN Max0(m_boost_amount - DECAY_PER_TICK * lastDt')
                 ELSE m_boost_amount
       /\ lastOp' # "giveBoost" => m_boost_amount' <= m_boost_amount]_vars

(* update has run with dt > 0 on a pending boost, which is still pending. *)
C2_Witness ==
    /\ lastOp = "update" /\ lastDt > 0
    /\ sinceBoost = lastDt + 1
    /\ m_boost_amount = BOOST_FULL - DECAY_PER_TICK * sinceBoost
    /\ m_boost_amount > 0

(* C7: beginCapture redirects rendering to the render target exactly when
   the feature is supported, enabled, at most one player is active and
   m_boost_amount > 0; when the first three hold it sets
   m_used_pp_this_frame to (m_boost_amount > 0). *)
C7_CaptureIffBoost ==
    [][lastOp' = "beginCapture" =>
          LET redirect == ~FeatureOff /\ m_boost_amount > 0 IN
          /\ calls' = IF redirect THEN <<SetRenderTarget(m_render_target)>>
                                  ELSE <<>>
          /\ render_target' = IF redirect THEN m_render_target
                                          ELSE render_target
          /\ ~FeatureOff => m_used_pp_this_frame' = (m_boost_amount > 0)]_vars

(* beginCapture has run with the feature on and no boost pending, after a
   frame that was captured: nothing is redirected and the flag is cleared. *)
C7_Witness ==
    /\ lastOp = "beginCapture"
    /\ ~FeatureOff /\ m_boost_amount = 0
    /\ m_render_target = "postprocess"
    /\ used_assigned /\ ~m_used_pp_this_frame
    /\ calls = <<>> /\ render_target = "framebuffer"

(* C8: m_boost_amount is always between 0 and 2.5; it is 0 after
   construction and exactly 2.5 after giveBoost. *)
C8_BoostRange ==
    /\ m_boost_amount >= 0
    /\ m_boost_amount <= BOOST_FULL
    /\ lastOp = "PostProcessing" => m_boost_amount = 0
    /\ lastOp = "giveBoost" => m_boost_amount = BOOST_FULL

(* update has just cut a pending boost of less than 3.5*dt off at 0. *)
C8_Witness ==
    /\ lastOp = "update" /\ lastDt = 1
    /\ sinceBoost = SinceCap /\ sinceBoost * DECAY_PER_TICK > BOOST_FULL
    /\ m_boost_amount = 0
    /\ m_used_pp_this_frame /\ phase = "begun" /\ frameRedirected

(* C3: the boost is 2.5 less 3.5 times the time updated since giveBoost,
   and exactly 0 once that time reaches 2.5/3.5 s; at 0 it stays 0, and beginCapture redirects nothing, until the
   next giveBoost; and if update keeps being called with dt > 0 and giveBoost
   is not called again, m_boost_amount becomes 0 and stays 0. *)
C3_DecaysToZero ==
    /\ [](m_boost_amount = Max0(BOOST_FULL - DECAY_PER_TICK * sinceBoost))
    /\ [][(m_boost_amount = 0 /\ lastOp' # "giveBoost") =>
             /\ m_boost_amount' = 0
             /\ ~(lastOp' = "beginCapture" /\ calls' # <<>>)]_vars
    /\ (/\ []<><<\E dt \in 1..MaxDt : update(dt)>>_vars
        /\ <>[][lastOp' # "giveBoost"]_vars)
       => <>[](m_boost_amount = 0)

(* A boost was given and captured, updates have since decayed it to 0, and
   the beginCapture that followed redirected nothing. *)
C3_Witness ==
    /\ lastOp = "beginCapture"
    /\ ~FeatureOff /\ m_render_target = "postprocess"
    /\ m_boost_amount = 0 /\ sinceBoost = SinceCap
    /\ used_assigned /\ ~m_used_pp_this_frame
    /\ calls = <<>> /\ render_target = "framebuffer"
    /\ inited

RequiredCapabilities(d) == d.glsl /\ d.ps20 /\ d.rtt

AllocationFailed == inited /\ m_supported /\ m_render_target = "null"

Draws == calls = <<SetMaterial, DrawIndexedTriangleList>>

(* C4: after init on supporting hardware got no render target, the
   configuration flag is off when init returns, and from then on no
   beginCapture redirects rendering to the missing render target and no
   render draws the quad, whatever the configuration flag is set to later.
   (Stated for the draws that follow a beginCapture which set
   m_used_pp_this_frame, so that no violation rests on the flag's
   indeterminate value after construction.) *)
C4_AllocationFailureIsPermanent ==
    AllocationFailed =>
        /\ lastOp = "init" => ~m_postprocess_enabled
        /\ ~(lastOp = "beginCapture" /\ calls # <<>>)
        /\ ~(lastOp = "render" /\ used_assigned /\ Draws)

(* C5: init on a driver lacking GLSL, pixel shader 2.0 or render-to-target
   leaves the feature disabled, creates neither render target nor shader
   material in that call, and logs a warning in that call. *)
C5_CapabilityAbsenceWarns ==
    (lastOp = "init" /\ ~RequiredCapabilities(queried)) =>
        /\ ~m_supported
        /\ calls = <<>>
        /\ log # <<>>

(* C5, amended: init on a driver lacking GLSL, pixel shader 2.0 or
   render-to-target sets m_supported to false and creates neither render
   target nor shader material (those of an earlier init, and the
   configuration flag, are left as they were); it logs a warning exactly when
   the driver also lacks non-power-of-two or non-square textures; and
   m_supported changes in no call but init. *)
C5_CapabilityAbsenceDisables ==
    [][/\ (lastOp' = "init" /\ ~RequiredCapabilities(queried')) =>
             /\ ~m_supported'
             /\ calls' = <<>>
             /\ UNCHANGED <<m_render_target, m_material, m_postprocess_enabled>>
             /\ (log' # <<>>) <=> (~queried'.npot \/ ~queried'.nsquare)
       /\ lastOp' # "init" => (m_supported' = m_supported /\ log' = <<>>)]_vars

(* A second init has run, on a driver without GLSL whose textures are
   unrestricted: the feature is off, the render target of the first init is
   still held, and nothing was logged. *)
C5_Witness ==
    /\ lastOp = "init"
    /\ ~queried.glsl /\ queried.ps20 /\ queried.rtt
    /\ queried.npot /\ queried.nsquare
    /\ ~m_supported
    /\ m_render_target = "postprocess"
    /\ m_material.MaterialType = "motion_blur"
    /\ calls = <<>> /\ log = <<>>

(* C6: in a frame beginCapture, endCapture, render during which the support
   flag, the configuration flag and the player count do not change: if
   beginCapture redirected rendering, endCapture restores the frame buffer
   before render runs and render draws the quad, once; if it did not,
   endCapture and render make no engine call. *)
C6_FrameSequence ==
    /\ (envStable /\ phase = "ended") =>
          /\ lastOp = "endCapture" =>
                calls = IF frameRedirected
                        THEN <<SetRenderTarget("framebuffer")>> ELSE <<>>
          /\ frameRedirected => render_target = "framebuffer"
    /\ (envStable /\ phase = "rendered") =>
          /\ lastOp = "render" =>
                calls = IF frameRedirected
                        THEN <<SetMaterial, DrawIndexedTriangleList>> ELSE <<>>
          /\ frameRedirected => render_target = "framebuffer"

(* A captured frame has been rendered: the frame buffer is the render target
   again and the quad has been drawn. *)
C6_Witness ==
    /\ phase = "rendered" /\ lastOp = "render"
    /\ envStable /\ frameRedirected
    /\ m_render_target = "postprocess"
    /\ Draws
    /\ render_target = "framebuffer"

ProperFrame == inited /\ ~initInFrame /\ m_render_target = "postprocess"

(* C9: whenever beginCapture has set the off-screen render target, the
   endCapture of the same frame restores the frame buffer, also when the
   configuration flag or the player count changed in between.  (Stated for
   the frames of an object initialised before the frame, with its render
   target allocated.) *)
C9_NeverLeftRedirected ==
    (ProperFrame /\ phase = "ended" /\ frameRedirected
       /\ lastOp = "endCapture") =>
        render_target = "framebuffer"

(* C10: render draws the quad only if the beginCapture of the same frame
   redirected rendering, so never on a value of m_used_pp_this_frame that is
   left over from an earlier frame or was never assigned.  (Stated for the
   frames of an object initialised before the frame, with its render target
   allocated.) *)
C10_DrawOnlyWhenCaptured ==
    (ProperFrame /\ phase = "rendered" /\ lastOp = "render" /\ Draws) =>
        /\ used_assigned
        /\ frameRedirected

====
